---- MODULE Spec2Model ----
(***************************************************************************)
(* A state-machine model of agent-swarm-simple: the quickstart script, the *)
(* framework's main entry point, run_iteration and the three workflow      *)
(* nodes (planning_node, approval_node, building_node) with the Agent      *)
(* HTTP wrapper.  Every await of the code is one step; the dashboard (the  *)
(* external collaborator) answers every request with one of Outcomes.      *)
(***************************************************************************)
EXTENDS Integers, Sequences, FiniteSets, TLC

\* ------------------------------------------------------------- bounds
\* Longest backlog handed to run_iteration by a direct caller.
MaxBacklog == 2

\* ---------------------------------------------------------- constants
\* The three packages quickstart.py checks for.
Deps == {"langgraph", "aiohttp", "dotenv"}

\* The ways the program is started.
Entries == {"quickstart", "framework_main", "run_iteration"}

\* What one HTTP request can do: answer 200, answer another status (the
\* call returns normally: nothing inspects the status of a POST), or raise
\* (connection refused, timeout, closed session, ...).
Outcomes == {"ok", "non200", "error"}

Raises(o) == o = "error"

\* Backlog items (id, title); the description is never read.
Item(id, title) == [id |-> id, title |-> title]

MainBacklog ==
    << Item("FEAT-001", "User Login API"), Item("FEAT-002", "Dashboard UI") >>

test_backlog == << Item("TEST-001", "Hello World API") >>

\* Items a direct caller of run_iteration draws its backlog from.
ItemPool == { Item("FEAT-001", "User Login API"), Item("TEST-001", "Hello World API") }

SeqsUpTo(S, n) == UNION { [1..k -> S] : k \in 0..n }

Backlogs == SeqsUpTo(ItemPool, MaxBacklog)

\* The keys of building_node's agents dict, in insertion order.
agents == << "backend", "frontend", "qa" >>

Roles == { agents[i] : i \in 1..Len(agents) }

\* A faulty variant of task_types: the frontend tasks are walked first.
task_types_FrontendFirst == << "frontend", "backend", "qa" >>

\* The order in which building_node walks the task types.
task_types == << "backend", "frontend", "qa" >>

NoCalls == [opened |-> 0, register |-> 0, update |-> 0, updRaised |-> 0,
            activity |-> 0, closed |-> 0]

\* ---------------------------------------------------------- variables
VARIABLES
    entry,          \* how the program was started
    missing,        \* the required packages that cannot be imported
    pc,             \* the program's position
    exitStatus,     \* -1 while running, else the process exit status
    out,            \* the tags of the messages printed by the entry points
    envLoaded,      \* load_dotenv() has run
    probes,         \* liveness probes (GET) sent
    dashboard_available, \* quickstart's flag
    runs,           \* the backlogs run_iteration was invoked with, in order
    phase,          \* IterationState.phase ("none" before run_iteration)
    backlog,        \* IterationState.backlog
    plan,           \* IterationState.plan
    completed_tasks,\* IterationState.completed_tasks
    messages,       \* IterationState.messages
    session,        \* Agent.session per agent: "none", "open", "closed"
    calls,          \* per agent: sessions opened/closed and POSTs attempted
    agentIdx,       \* position of the loops over agents.values()
    typeIdx,        \* position of the loop over task types
    taskIdx,        \* position of the loop over type_tasks
    completed,      \* building_node's local list
    lastUpd,        \* outcome of the /api/agent/update POST of the current call
    started,        \* tasks whose busy update has been issued
    finished,       \* tasks whose idle update has returned
    working,        \* agents between a busy update's start and the idle update's end
    raised          \* an exception escaped the workflow

vars == << entry, missing, pc, exitStatus, out, envLoaded, probes,
           dashboard_available, runs, phase, backlog, plan, completed_tasks,
           messages, session, calls, agentIdx, typeIdx, taskIdx, completed,
           lastUpd, started, finished, working, raised >>

entryVars == << entry, missing >>
procVars == << exitStatus, out, envLoaded, probes, dashboard_available >>
stateVars == << phase, backlog, plan, completed_tasks, messages >>
agentVars == << session, calls >>
loopVars == << agentIdx, typeIdx, taskIdx, completed, lastUpd, started, finished,
              working >>

\* ------------------------------------------------------- planning_node
\* The three tasks of one backlog item.
item_tasks(item) ==
    << [id |-> item.id \o "-backend", title |-> "Backend: " \o item.title,
        assignee |-> "backend"],
       [id |-> item.id \o "-frontend", title |-> "Frontend: " \o item.title,
        assignee |-> "frontend"],
       [id |-> item.id \o "-tests", title |-> "Tests: " \o item.title,
        assignee |-> "qa"] >>

\* A faulty variant of plan_tasks: each item's tasks are put in front of the list.
RECURSIVE plan_tasks_Prepend(_)
plan_tasks_Prepend(items) ==
    IF items = << >> THEN << >>
    ELSE item_tasks(items[Len(items)])
             \o plan_tasks_Prepend(SubSeq(items, 1, Len(items) - 1))

\* tasks after the loop over the backlog: tasks.extend([...]) per item.
RECURSIVE plan_tasks(_)
plan_tasks(items) ==
    IF items = << >> THEN << >>
    ELSE plan_tasks(SubSeq(items, 1, Len(items) - 1)) \o item_tasks(items[Len(items)])

make_plan(items) ==
    LET tasks == plan_tasks(items)
    IN  [tasks |-> tasks, total_tasks |-> Len(tasks)]

EmptyPlan == [tasks |-> << >>, total_tasks |-> 0]

\* A faulty variant of type_tasks: the qa tasks are looked up under the tag "tests".
type_tasks_TestsTag(tasks, task_type) ==
    SelectSeq(tasks, LAMBDA t :
        t.assignee = (IF task_type = "qa" THEN "tests" ELSE task_type))

\* type_tasks = [t for t in tasks if t["assignee"] == task_type]
type_tasks(tasks, task_type) ==
    SelectSeq(tasks, LAMBDA t : t.assignee = task_type)

\* ----------------------------------------------------------------- Init
Init ==
    /\ entry \in Entries
    /\ missing \in (IF entry = "quickstart" THEN SUBSET Deps ELSE { {} })
    /\ pc = CASE entry = "quickstart" -> "qs_imports"
              [] entry = "framework_main" -> "fw_probe"
              [] OTHER -> "call_run"
    /\ exitStatus = -1
    /\ out = {}
    /\ envLoaded = (entry # "quickstart")
    /\ probes = 0
    /\ dashboard_available = FALSE
    /\ runs = << >>
    /\ phase = "none"
    /\ backlog = << >>
    /\ plan = EmptyPlan
    /\ completed_tasks = << >>
    /\ messages = << >>
    /\ session = [a \in Roles |-> "none"]
    /\ calls = [a \in Roles |-> NoCalls]
    /\ agentIdx = 0
    /\ typeIdx = 0
    /\ taskIdx = 0
    /\ completed = << >>
    /\ lastUpd = "none"
    /\ started = 0
    /\ finished = 0
    /\ working = {}
    /\ raised = FALSE

\* ------------------------------------------------------- quickstart.py
\* A faulty variant of import_check: the message is printed but the script goes on.
import_check_NoExit ==
    /\ pc = "qs_imports"
    /\ out' = IF missing # {} THEN out \cup {"missing_packages"} ELSE out
    /\ pc' = "qs_load_env"
    /\ UNCHANGED << entryVars, exitStatus, envLoaded, probes,
                    dashboard_available, runs, stateVars, agentVars, loopVars,
                    raised >>

\* try: import langgraph, aiohttp, dotenv / except ImportError: exit(1)
import_check ==
    /\ pc = "qs_imports"
    /\ IF missing # {}
       THEN /\ out' = out \cup {"missing_packages"}
            /\ exitStatus' = 1
            /\ pc' = "exited"
       ELSE /\ pc' = "qs_load_env"
            /\ UNCHANGED << out, exitStatus >>
    /\ UNCHANGED << entryVars, envLoaded, probes, dashboard_available, runs,
                    stateVars, agentVars, loopVars, raised >>

\* load_dotenv() at module level, then asyncio.run(test_setup()).
load_env ==
    /\ pc = "qs_load_env"
    /\ envLoaded' = TRUE
    /\ pc' = "qs_probe"
    /\ UNCHANGED << entryVars, exitStatus, out, probes, dashboard_available,
                    runs, stateVars, agentVars, loopVars, raised >>

\* test_setup step 2: GET /dashboard inside try / bare except.
test_setup ==
    /\ pc = "qs_probe"
    /\ \E o \in Outcomes :
          /\ probes' = probes + 1
          /\ dashboard_available' = (o = "ok")
          /\ out' = out \cup (CASE o = "ok" -> {"dashboard_running"}
                                [] o = "non200" -> {}
                                [] OTHER -> {"dashboard_not_accessible"})
    /\ pc' = "call_run"
    /\ UNCHANGED << entryVars, exitStatus, envLoaded, runs, stateVars,
                    agentVars, loopVars, raised >>

\* ------------------------------------------- simple_agent_framework.main
\* A faulty variant of main_probe: no try around the probe, a network error ends main.
main_probe_Fatal ==
    /\ pc = "fw_probe"
    /\ \E o \in Outcomes :
          /\ probes' = probes + 1
          /\ out' = out \cup (CASE o = "ok" -> {"dashboard_connected"}
                                [] o = "non200" -> {"dashboard_not_responding"}
                                [] OTHER -> {})
          /\ IF Raises(o)
             THEN /\ pc' = "exited"
                  /\ exitStatus' = 1
                  /\ raised' = TRUE
             ELSE /\ pc' = "call_run"
                  /\ UNCHANGED << exitStatus, raised >>
    /\ UNCHANGED << entryVars, envLoaded, dashboard_available, runs, stateVars,
                    agentVars, loopVars >>

\* GET /api/iteration/status inside try / bare except.
main_probe ==
    /\ pc = "fw_probe"
    /\ \E o \in Outcomes :
          /\ probes' = probes + 1
          /\ out' = out \cup (CASE o = "ok" -> {"dashboard_connected"}
                                [] o = "non200" -> {"dashboard_not_responding"}
                                [] OTHER -> {"dashboard_not_available"})
    /\ pc' = "call_run"
    /\ UNCHANGED << entryVars, exitStatus, envLoaded, dashboard_available,
                    runs, stateVars, agentVars, loopVars, raised >>

\* -------------------------------------------------------- run_iteration
\* The backlog each entry point hands to run_iteration.
EntryBacklogs ==
    CASE entry = "quickstart" -> { test_backlog }
      [] entry = "framework_main" -> { MainBacklog }
      [] OTHER -> Backlogs

\* run_iteration builds the initial state; ainvoke enters the graph at its
\* entry point, planning.
run_iteration ==
    /\ pc = "call_run"
    /\ \E b \in EntryBacklogs :
          /\ runs' = Append(runs, b)
          /\ backlog' = b
    /\ phase' = "planning"
    /\ plan' = EmptyPlan
    /\ completed_tasks' = << >>
    /\ messages' = << >>
    /\ pc' = "planning"
    /\ UNCHANGED << entryVars, procVars, agentVars, loopVars, raised >>

planning_node ==
    /\ pc = "planning"
    /\ plan' = make_plan(backlog)
    /\ phase' = "approval"
    /\ messages' = Append(messages,
           "Created plan with " \o ToString(Len(plan_tasks(backlog))) \o " tasks")
    /\ pc' = "approval"
    /\ UNCHANGED << entryVars, procVars, runs, backlog, completed_tasks,
                    agentVars, loopVars, raised >>

\* A faulty variant of approval_node: the returned update leaves the phase out.
approval_node_KeepsPhase ==
    /\ pc = "approval"
    /\ messages' = Append(messages, "Plan approved by product owner")
    /\ pc' = "build_start"
    /\ UNCHANGED << entryVars, procVars, runs, phase, backlog, plan,
                    completed_tasks, agentVars, loopVars, raised >>

\* sleep(3), then auto-approve.
approval_node ==
    /\ pc = "approval"
    /\ phase' = "building"
    /\ messages' = Append(messages, "Plan approved by product owner")
    /\ pc' = "build_start"
    /\ UNCHANGED << entryVars, procVars, runs, backlog, plan, completed_tasks,
                    agentVars, loopVars, raised >>

\* -------------------------------------------------------- building_node
\* agents = {...}: three fresh Agent objects, session None.
building_node ==
    /\ pc = "build_start"
    /\ session' = [a \in Roles |-> "none"]
    /\ calls' = [a \in Roles |-> NoCalls]
    /\ agentIdx' = 1
    /\ typeIdx' = 0
    /\ taskIdx' = 0
    /\ completed' = << >>
    /\ lastUpd' = "none"
    /\ started' = 0
    /\ finished' = 0
    /\ working' = {}
    /\ pc' = "build_setup"
    /\ UNCHANGED << entryVars, procVars, runs, stateVars, raised >>

\* What a POST on agent a's session can do: a session that is not open
\* (None, or closed) makes the call raise before anything is sent.
PostOutcomes(a) == IF session[a] = "open" THEN Outcomes ELSE {"error"}

\* Agent.setup of the agentIdx-th agent: open the session, POST the
\* registration inside try / bare except.
setup ==
    /\ pc = "build_setup"
    /\ LET a == agents[agentIdx]
       IN  /\ session' = [session EXCEPT ![a] = "open"]
           /\ \E o \in Outcomes :
                 calls' = [calls EXCEPT ![a].opened = @ + 1,
                                        ![a].register = @ + 1]
    /\ IF agentIdx < Len(agents)
       THEN /\ agentIdx' = agentIdx + 1
            /\ pc' = "build_setup"
            /\ UNCHANGED typeIdx
       ELSE /\ agentIdx' = 0
            /\ typeIdx' = 1
            /\ pc' = "loop_type"
    /\ UNCHANGED << entryVars, procVars, runs, stateVars, taskIdx, completed,
                    lastUpd, started, finished, working, raised >>

\* The tasks of the task type the outer loop is at.
CurTasks == type_tasks(plan.tasks, task_types[typeIdx])

\* agent = agents[task_type]
CurAgent == task_types[typeIdx]

\* Head of "for task_type in [...]": filter the tasks, skip an empty type.
task_type_loop ==
    /\ pc = "loop_type"
    /\ IF typeIdx > Len(task_types)
       THEN /\ agentIdx' = 1
            /\ pc' = "build_cleanup"
            /\ UNCHANGED << typeIdx, taskIdx >>
       ELSE IF CurTasks = << >>
            THEN /\ typeIdx' = typeIdx + 1
                 /\ pc' = "loop_type"
                 /\ UNCHANGED << agentIdx, taskIdx >>
            ELSE /\ taskIdx' = 1
                 /\ pc' = "busy_upd"
                 /\ UNCHANGED << agentIdx, typeIdx >>
    /\ UNCHANGED << entryVars, procVars, runs, stateVars, agentVars, completed,
                    lastUpd, started, finished, working, raised >>

\* update_dashboard's first POST (/api/agent/update) with outcome o.
update_post(a, o) ==
    /\ calls' = [calls EXCEPT ![a].update = @ + 1,
                              ![a].updRaised = @ + (IF Raises(o) THEN 1 ELSE 0)]
    /\ lastUpd' = o

\* update_dashboard's second POST (/api/activity/post).
activity_post(a) ==
    /\ calls' = [calls EXCEPT ![a].activity = @ + 1]
    /\ UNCHANGED lastUpd

\* End of the loop body: the next task of the type, or the next type.
NextTask ==
    IF taskIdx < Len(CurTasks)
    THEN /\ taskIdx' = taskIdx + 1
         /\ pc' = "busy_upd"
         /\ UNCHANGED typeIdx
    ELSE /\ taskIdx' = 0
         /\ typeIdx' = typeIdx + 1
         /\ pc' = "loop_type"

\* A faulty variant of update_dashboard_busy: each POST has a try of its own, so the activity
\* POST follows a failed update POST too.
update_dashboard_busy_SeparateTry ==
    /\ pc = "busy_upd"
    /\ \E o \in PostOutcomes(CurAgent) :
          /\ update_post(CurAgent, o)
          /\ pc' = "busy_act"
    /\ started' = started + 1
    /\ working' = working \cup {CurAgent}
    /\ UNCHANGED << entryVars, procVars, runs, stateVars, session, agentIdx,
                    typeIdx, taskIdx, completed, finished, raised >>

\* await agent.update_dashboard("busy", ...): the update POST.  A raise is
\* swallowed by the bare except and the call returns.
update_dashboard_busy ==
    /\ pc = "busy_upd"
    /\ \E o \in PostOutcomes(CurAgent) :
          /\ update_post(CurAgent, o)
          /\ pc' = IF Raises(o) THEN "work" ELSE "busy_act"
    /\ started' = started + 1
    /\ working' = working \cup {CurAgent}
    /\ UNCHANGED << entryVars, procVars, runs, stateVars, session, agentIdx,
                    typeIdx, taskIdx, completed, finished, raised >>

\* The activity POST of the busy update; its outcome is ignored either way.
activity_post_busy ==
    /\ pc = "busy_act"
    /\ \E o \in PostOutcomes(CurAgent) : activity_post(CurAgent)
    /\ pc' = "work"
    /\ UNCHANGED << entryVars, procVars, runs, stateVars, session, agentIdx,
                    typeIdx, taskIdx, completed, started, finished, working,
                    raised >>

\* A faulty variant of simulate_work: the idle update is not awaited before the next task.
simulate_work_NoIdle ==
    /\ pc = "work"
    /\ completed' = Append(completed, CurTasks[taskIdx].id)
    /\ NextTask
    /\ UNCHANGED << entryVars, procVars, runs, stateVars, agentVars, agentIdx,
                    lastUpd, started, finished, working, raised >>

\* sleep(1); completed.append(task["id"])
simulate_work ==
    /\ pc = "work"
    /\ completed' = Append(completed, CurTasks[taskIdx].id)
    /\ pc' = "idle_upd"
    /\ UNCHANGED << entryVars, procVars, runs, stateVars, agentVars, agentIdx,
                    typeIdx, taskIdx, lastUpd, started, finished, working,
                    raised >>

\* A faulty variant of update_dashboard_idle: no try around the POSTs, a raise leaves the workflow.
update_dashboard_idle_Unguarded ==
    /\ pc = "idle_upd"
    /\ \E o \in PostOutcomes(CurAgent) :
          /\ update_post(CurAgent, o)
          /\ IF Raises(o)
             THEN /\ raised' = TRUE
                  /\ exitStatus' = 1
                  /\ pc' = "exited"
             ELSE /\ pc' = "idle_act"
                  /\ UNCHANGED << raised, exitStatus >>
    /\ UNCHANGED << entryVars, out, envLoaded, probes, dashboard_available,
                    runs, stateVars, session, agentIdx, typeIdx, taskIdx,
                    completed, started, finished, working >>

\* await agent.update_dashboard("idle", ...): the update POST.
update_dashboard_idle ==
    /\ pc = "idle_upd"
    /\ \E o \in PostOutcomes(CurAgent) :
          /\ update_post(CurAgent, o)
          /\ IF Raises(o)
             THEN /\ finished' = finished + 1
                  /\ working' = working \ {CurAgent}
                  /\ NextTask
             ELSE /\ pc' = "idle_act"
                  /\ UNCHANGED << finished, working, typeIdx, taskIdx >>
    /\ UNCHANGED << entryVars, procVars, runs, stateVars, session, agentIdx,
                    completed, started, raised >>

\* The activity POST of the idle update, then the loop goes on.
activity_post_idle ==
    /\ pc = "idle_act"
    /\ \E o \in PostOutcomes(CurAgent) : activity_post(CurAgent)
    /\ finished' = finished + 1
    /\ working' = working \ {CurAgent}
    /\ NextTask
    /\ UNCHANGED << entryVars, procVars, runs, stateVars, session, agentIdx,
                    completed, started, raised >>

\* A faulty variant of cleanup: the test is inverted, no session is ever closed.
cleanup_Inverted ==
    /\ pc = "build_cleanup"
    /\ IF agentIdx < Len(agents)
       THEN /\ agentIdx' = agentIdx + 1
            /\ pc' = "build_cleanup"
       ELSE /\ agentIdx' = 0
            /\ pc' = "build_return"
    /\ UNCHANGED << entryVars, procVars, runs, stateVars, agentVars, typeIdx,
                    taskIdx, completed, lastUpd, started, finished, working,
                    raised >>

\* Agent.cleanup of the agentIdx-th agent: close the session if there is one.
cleanup ==
    /\ pc = "build_cleanup"
    /\ LET a == agents[agentIdx]
       IN  IF session[a] # "none"
           THEN /\ session' = [session EXCEPT ![a] = "closed"]
                /\ calls' = [calls EXCEPT ![a].closed = @ + 1]
           ELSE UNCHANGED << session, calls >>
    /\ IF agentIdx < Len(agents)
       THEN /\ agentIdx' = agentIdx + 1
            /\ pc' = "build_cleanup"
       ELSE /\ agentIdx' = 0
            /\ pc' = "build_return"
    /\ UNCHANGED << entryVars, procVars, runs, stateVars, typeIdx, taskIdx,
                    completed, lastUpd, started, finished, working, raised >>

\* building_node's return value merged into the state; the graph ends.
building_node_return ==
    /\ pc = "build_return"
    /\ phase' = "complete"
    /\ completed_tasks' = completed
    /\ messages' = Append(messages,
           "Completed " \o ToString(Len(completed)) \o " tasks")
    /\ pc' = "run_done"
    /\ UNCHANGED << entryVars, procVars, runs, backlog, plan, agentVars,
                    loopVars, raised >>

\* run_iteration prints the summary and returns; the entry point ends.
run_iteration_return ==
    /\ pc = "run_done"
    /\ exitStatus' = 0
    /\ pc' = "exited"
    /\ out' = out \cup {"iteration_complete"}
    /\ UNCHANGED << entryVars, envLoaded, probes, dashboard_available, runs,
                    stateVars, agentVars, loopVars, raised >>

\* ------------------------------------------------------- specification
Next ==
    \/ import_check
    \/ load_env
    \/ test_setup
    \/ main_probe
    \/ run_iteration
    \/ planning_node
    \/ approval_node
    \/ building_node
    \/ setup
    \/ task_type_loop
    \/ update_dashboard_busy
    \/ activity_post_busy
    \/ simulate_work
    \/ update_dashboard_idle
    \/ activity_post_idle
    \/ cleanup
    \/ building_node_return
    \/ run_iteration_return

Spec == Init /\ [][Next]_vars

\* The event loop runs the single coroutine to its end: every sleep is
\* finite and every request returns or raises within the client's timeout.
FairSpec == Spec /\ WF_vars(Next)

TypeOK ==
    /\ pc \in {"qs_imports", "qs_load_env", "qs_probe", "fw_probe", "call_run",
               "planning", "approval", "build_start", "build_setup",
               "loop_type", "busy_upd", "busy_act", "work", "idle_upd",
               "idle_act", "build_cleanup", "build_return", "run_done",
               "exited"}
    /\ phase \in {"none", "planning", "approval", "building", "complete"}
    /\ exitStatus \in {-1, 0, 1}

\* ------------------------------------------------------------- helpers
\* How often x occurs in the sequence q.
Count(x, q) == Cardinality({ i \in 1..Len(q) : q[i] = x })

IsPrefix(p, q) == Len(p) <= Len(q) /\ SubSeq(q, 1, Len(p)) = p

\* The ids of the items of b, each followed by suffix, in backlog order.
IdsWith(b, suffix) == [ i \in 1..Len(b) |-> b[i].id \o suffix ]

\* All backend ids, then all frontend ids, then all tests ids.
ByRoleOrder(b) ==
    IdsWith(b, "-backend") \o IdsWith(b, "-frontend") \o IdsWith(b, "-tests")

\* The message log of a run on backlog b with every request answered 200.
ReachableLog(b) ==
    << "Created plan with " \o ToString(3 * Len(b)) \o " tasks",
       "Plan approved by product owner",
       "Completed " \o ToString(3 * Len(b)) \o " tasks" >>

\* run_iteration has been invoked and has returned or been left.
RunOver == runs # << >> /\ pc \in {"run_done", "exited"}

\* A POST of agent a was attempted in this step.
Posted(a) ==
    \/ calls'[a].register > calls[a].register
    \/ calls'[a].update > calls[a].update
    \/ calls'[a].activity > calls[a].activity

\* -------------------------------------------------------------- claims
\* C1: once planning_node has run, the plan holds exactly 3*N tasks for a
\* backlog of N items and total_tasks is 3*N; the i-th item with id X gives,
\* at positions 3i-2, 3i-1, 3i, the tasks X-backend (assignee backend),
\* X-frontend (assignee frontend) and X-tests (assignee qa).
C1_PlanIsThreePerItem ==
    phase \in {"approval", "building", "complete"} =>
        LET t == plan.tasks
            N == Len(backlog)
        IN  /\ Len(t) = 3 * N
            /\ plan.total_tasks = 3 * N
            /\ \A i \in 1..N :
                  /\ t[3 * i - 2].id = backlog[i].id \o "-backend"
                  /\ t[3 * i - 2].assignee = "backend"
                  /\ t[3 * i - 1].id = backlog[i].id \o "-frontend"
                  /\ t[3 * i - 1].assignee = "frontend"
                  /\ t[3 * i].id = backlog[i].id \o "-tests"
                  /\ t[3 * i].assignee = "qa"

C1_Witness ==
    /\ phase = "approval"
    /\ Len(backlog) = 2
    /\ backlog[1].id # backlog[2].id
    /\ plan.total_tasks = 6

\* C2: the phase label only ever moves along planning -> approval ->
\* building -> complete (so none is skipped, repeated or revisited), the
\* three stages have each logged their message when the phase is complete,
\* and every run of run_iteration eventually reaches phase complete.
PhaseEdges ==
    { << "none", "planning" >>, << "planning", "approval" >>,
      << "approval", "building" >>, << "building", "complete" >> }

C2_PhaseOrder ==
    /\ [][phase' # phase => << phase, phase' >> \in PhaseEdges]_vars
    /\ [](phase = "complete" => Len(messages) = 3)
    /\ [](runs # << >> => <>(phase = "complete"))

C2_Witness ==
    /\ phase = "complete"
    /\ backlog = << >>
    /\ plan.total_tasks = 0
    /\ Len(messages) = 3

\* C3: after a full run completed_tasks is as long as the plan and holds
\* every plan task id as often as the plan does, and no other id.
C3_CompletedIsPlan ==
    phase = "complete" =>
        LET ids == [ i \in 1..Len(plan.tasks) |-> plan.tasks[i].id ]
        IN  /\ Len(completed_tasks) = Len(plan.tasks)
            /\ \A i \in 1..Len(ids) :
                  Count(ids[i], completed_tasks) = Count(ids[i], ids)
            /\ \A i \in 1..Len(completed_tasks) :
                  Count(completed_tasks[i], ids) > 0

\* A full run on a backlog with a repeated id, some updates raising and
\* some activity POSTs reached.
C3_Witness ==
    /\ phase = "complete"
    /\ Len(backlog) = 2
    /\ backlog[1].id = backlog[2].id
    /\ \E a \in Roles : calls[a].updRaised > 0
    /\ \E a \in Roles : calls[a].activity > 0

\* C4: no failure of a collaborator call raises out of the workflow, and a
\* run that is over ended as the run with the collaborator reachable ends:
\* phase complete, the same completed_tasks, the same message log.
C4_FailuresChangeNothing ==
    /\ ~raised
    /\ runs # << >> => exitStatus # 1
    /\ RunOver =>
          /\ phase = "complete"
          /\ completed_tasks = ByRoleOrder(backlog)
          /\ messages = ReachableLog(backlog)

\* A finished run in which one agent's updates all raised, another's
\* never did, and the third's did partly.
C4_Witness ==
    /\ RunOver
    /\ Len(backlog) = 2
    /\ calls["backend"].updRaised = calls["backend"].update
    /\ calls["frontend"].updRaised = 0
    /\ calls["qa"].updRaised = 1

\* C5: in main and in quickstart (packages present) the probe is sent once,
\* the program never ends between the probe and the run, and run_iteration
\* is invoked exactly once, with the entry point's fixed backlog, whatever
\* the probe did.
C5_ProbeDoesNotSteer ==
    (entry \in {"framework_main", "quickstart"} /\ missing = {}) =>
        /\ probes <= 1
        /\ Len(runs) <= 1
        /\ runs # << >> => /\ probes = 1
                           /\ runs[1] = (IF entry = "quickstart"
                                         THEN test_backlog ELSE MainBacklog)
        /\ pc = "exited" => Len(runs) = 1 /\ exitStatus = 0
        /\ (probes = 1 /\ runs = << >>) => pc = "call_run"

\* main has ended after a probe that raised.
C5_Witness ==
    /\ entry = "framework_main"
    /\ "dashboard_not_available" \in out
    /\ pc = "exited"
    /\ runs = << MainBacklog >>

\* C6: at most one task is in progress and at most one agent is working at
\* any time, and a task's busy update is issued only when every earlier
\* task has been appended to the completed list and its idle update is over.
C6_Sequential ==
    /\ [](started - finished \in {0, 1} /\ Cardinality(working) <= 1)
    /\ [][started' > started =>
             /\ finished = started
             /\ Len(completed) = started
             /\ working = {}]_vars

\* The second backend task in progress, the first one over.
C6_Witness ==
    /\ started = 2
    /\ finished = 1
    /\ working = {"backend"}
    /\ pc = "work"

\* C7: with a required package missing, quickstart goes from the import
\* check straight to exit status 1 with the message printed: the
\* environment is not loaded, no probe is sent, run_iteration is not
\* invoked, no stage runs and no agent makes a call.
C7_MissingDependencyExits ==
    (entry = "quickstart" /\ missing # {}) =>
        /\ pc \in {"qs_imports", "exited"}
        /\ pc = "exited" => exitStatus = 1 /\ "missing_packages" \in out
        /\ ~envLoaded
        /\ probes = 0
        /\ runs = << >>
        /\ phase = "none"
        /\ \A a \in Roles : calls[a] = NoCalls /\ session[a] = "none"

C7_Witness ==
    /\ entry = "quickstart"
    /\ missing = {"aiohttp"}
    /\ pc = "exited"
    /\ exitStatus = 1

\* C8: at every point of the building stage the completed list is a prefix
\* of X1-backend..XN-backend, X1-frontend..XN-frontend, X1-tests..XN-tests
\* (so no frontend task completes before the last backend task, no qa task
\* before the last frontend task), and after a full run completed_tasks is
\* that whole sequence.
C8_CompletedByRole ==
    /\ IsPrefix(completed, ByRoleOrder(backlog))
    /\ pc = "loop_type" /\ typeIdx = 2 => completed = IdsWith(backlog, "-backend")
    /\ phase = "complete" => completed_tasks = ByRoleOrder(backlog)

C8_Witness ==
    /\ phase = "complete"
    /\ Len(backlog) = 2
    /\ backlog[1].id # backlog[2].id
    /\ Len(completed_tasks) = 6

C10_AgentLifecycle ==
    /\ [](\A a \in Roles : calls[a].opened <= 1 /\ calls[a].register <= 1)
    /\ []((\E a \in Roles : calls[a].update > 0) =>
             \A a \in Roles : calls[a].opened = 1 /\ calls[a].register = 1)
    /\ [](phase = "complete" =>
             \A a \in Roles : /\ session[a] = "closed"
                              /\ calls[a].opened = 1
                              /\ calls[a].register = 1
                              /\ calls[a].closed = 1)
    /\ [](\A a \in Roles :
             (\A i \in 1..Len(plan.tasks) : plan.tasks[i].assignee # a) =>
                 calls[a].update = 0 /\ calls[a].activity = 0)
    /\ [][\A a \in Roles :
             Posted(a) => session[a] # "closed" /\ session'[a] = "open"]_vars

\* A full run on the empty backlog: three sessions opened, registered and
\* closed, no update sent.
C10_Witness ==
    /\ phase = "complete"
    /\ backlog = << >>
    /\ \A a \in Roles : calls[a].register = 1 /\ calls[a].update = 0
    /\ \A a \in Roles : session[a] = "closed"

====
